---- MODULE Spec2Model ----
(***************************************************************************)
(* Model of api/index.py: the process-wide artifact cache (models,         *)
(* scalers, encoders, feature_names), the loader                            *)
(* load_models_and_processors, the feature preprocessor                     *)
(* preprocess_input_data and the two JSON routes /api/predict and           *)
(* /api/health, run by one single-threaded worker.                          *)
(*                                                                         *)
(* Numbers are fixed-point integers in thousandths (0.33 is 330).           *)
(* A Python dict is an insertion-ordered sequence of [k, v] entries.        *)
(***************************************************************************)
EXTENDS Integers, Sequences, FiniteSets, TLC

VARIABLES
    models,         \* global dict  task -> loaded model (named by its file)
    scalers,        \* global dict  task -> loaded scaler
    encoders,       \* global dict  task -> loaded encoder set
    feature_names,  \* global dict  "<task>_features" -> column list
    pc,             \* "import" | "imported" | "idle" | "returned"
    load,           \* the loader call made by the current step, if any
    lastLoad,       \* outcome of the most recent loader call: none|failed|ok
    everLoaded,     \* TRUE once a loader call has returned True
    request,        \* the request being answered
    input_data,     \* the handler's input_data dict when it returned
    resp            \* the response of the current step

vars == <<models, scalers, encoders, feature_names, pc, load, lastLoad,
          everLoaded, request, input_data, resp>>

(***************************** bounds **************************************)
MaxMissing  == 2   \* required fields a generated record may lack
MaxSupplied == 1   \* optional fields a generated record may supply
MaxAbsent   == 1   \* artifact files that may be absent at one load

(***************************** Python dicts ********************************)
EmptyDict == << >>

Entry(key, val) == [k |-> key, v |-> val]

Keys(d) == [i \in 1..Len(d) |-> d[i].k]

Has(d, key) == \E i \in 1..Len(d) : d[i].k = key

Get(d, key) == d[CHOOSE i \in 1..Len(d) : d[i].k = key].v

Put(d, key, val) ==
    IF Has(d, key)
    THEN [i \in 1..Len(d) |-> IF d[i].k = key THEN Entry(key, val) ELSE d[i]]
    ELSE Append(d, Entry(key, val))

Truthy(d) == Len(d) > 0

SeqToSet(s) == {s[i] : i \in 1..Len(s)}

(***************************** the artifact cache **************************)
Cache == [models |-> models, scalers |-> scalers, encoders |-> encoders,
          feature_names |-> feature_names]

EmptyCache == [models |-> EmptyDict, scalers |-> EmptyDict,
               encoders |-> EmptyDict, feature_names |-> EmptyDict]

\* The six files the loader checks for, in the order of the list `expected`.
expected == << "best_regression_model_linear.pkl",
               "best_classification_model_logistic.pkl",
               "regression_scaler.pkl",
               "classification_scaler.pkl",
               "regression_encoders.pkl",
               "classification_encoders.pkl" >>

\* The six joblib.load assignments, in program order: which dict, which key,
\* which file.
LoadSteps == << [map |-> "models",   key |-> "regression",     file |-> expected[1]],
                [map |-> "models",   key |-> "classification", file |-> expected[2]],
                [map |-> "scalers",  key |-> "regression",     file |-> expected[3]],
                [map |-> "scalers",  key |-> "classification", file |-> expected[4]],
                [map |-> "encoders", key |-> "regression",     file |-> expected[5]],
                [map |-> "encoders", key |-> "classification", file |-> expected[6]] >>

\* Possible contents of feature_names.json (an external input).
DocGood ==
    << Entry("regression_features",
             << "Latitude", "Country", "Current_Tourist_Count" >>),
       Entry("classification_features",
             << "Elevation_m", "Temperature_C" >>) >>

DocExtraColumn ==
    << Entry("regression_features", << "Latitude", "Country" >>),
       Entry("classification_features", << "Elevation_m", "Region" >>) >>

DocRegressionOnly ==
    << Entry("regression_features", << "Latitude" >>) >>

DocEmpty == EmptyDict

Docs == {DocGood, DocExtraColumn, DocRegressionOnly, DocEmpty}

SubsetsUpTo(S, n) == {T \in SUBSET S : Cardinality(T) <= n}

\* The environment of one loader call: which expected files are absent,
\* which read fails (1..6 a pickle, 7 the JSON document, 0 none) and the
\* feature-name document.  Inputs the call never reads are fixed.
LoadEnvs ==
    {[absent |-> a, failAt |-> 0, doc |-> DocGood] :
        a \in SubsetsUpTo(SeqToSet(expected), MaxAbsent) \ {{}}}
    \cup
    {[absent |-> {}, failAt |-> f, doc |-> DocGood] : f \in 1..7}
    \cup
    {[absent |-> {}, failAt |-> 0, doc |-> d] : d \in Docs}

\* The cache after the first n joblib.load assignments have run.
RECURSIVE StoreFirst(_, _)
StoreFirst(c, n) ==
    IF n = 0 THEN c
    ELSE LET p == StoreFirst(c, n - 1)
             s == LoadSteps[n]
         IN  [p EXCEPT ![s.map] = Put(p[s.map], s.key, s.file)]

\* The reads after the pre-check: six joblib.load assignments, then the JSON
\* document replaces feature_names.  A failing read raises with the earlier
\* assignments already made.
LoadReads(c, env, missing) ==
    IF env.failAt \in 1..6
    THEN [cache |-> StoreFirst(c, env.failAt - 1),
          missing |-> missing, raised |-> TRUE, ret |-> FALSE]
    ELSE IF env.failAt = 7
    THEN [cache |-> StoreFirst(c, 6),
          missing |-> missing, raised |-> TRUE, ret |-> FALSE]
    ELSE [cache |-> [StoreFirst(c, 6) EXCEPT !.feature_names = env.doc],
          missing |-> missing, raised |-> FALSE, ret |-> TRUE]

\* A loader without the existence pre-check: it reads the files in order and
\* fails at the first absent one.
LoadBodyNoPrecheck(c, env) ==
    LET missing == SelectSeq(expected, LAMBDA f : f \in env.absent)
        firstAbsent == CHOOSE i \in 1..6 :
                          /\ expected[i] \in env.absent
                          /\ \A j \in 1..(i - 1) : expected[j] \notin env.absent
    IN  IF missing # << >>
        THEN [cache |-> StoreFirst(c, firstAbsent - 1),
              missing |-> missing, raised |-> TRUE, ret |-> FALSE]
        ELSE LoadReads(c, env, missing)

\* The try block of load_models_and_processors: the cache it leaves, and the
\* value it returns or the fact that it raised.
LoadBody(c, env) ==
    LET missing == SelectSeq(expected, LAMBDA f : f \in env.absent)
    IN  IF missing # << >>
        THEN [cache |-> c, missing |-> missing, raised |-> FALSE, ret |-> FALSE]
        ELSE LoadReads(c, env, missing)

\* except Exception: log and return False.
LoadResult(c, env) ==
    LET b == LoadBody(c, env)
    IN  [called |-> TRUE, absent |-> env.absent, pre |-> c, cache |-> b.cache,
         missing |-> b.missing,
         failed_read |-> b.raised, raised |-> FALSE,
         ok |-> IF b.raised THEN FALSE ELSE b.ret]

NoLoad == [called |-> FALSE, absent |-> {}, pre |-> EmptyCache, cache |-> EmptyCache,
           missing |-> << >>, failed_read |-> FALSE, raised |-> FALSE,
           ok |-> FALSE]

(***************************** site records ********************************)
\* A JSON value: a number (in thousandths) or a string.
Num(n) == [tag |-> "num", num |-> n, str |-> ""]
Str(t) == [tag |-> "str", num |-> 0, str |-> t]

\* The list `required` of predict().
required == << "Latitude", "Longitude", "Vegetation_Type", "Biodiversity_Index",
               "Protected_Area_Status", "Elevation_m", "Slope_Degree", "Soil_Type",
               "Air_Quality_Index", "Average_Temperature_C", "Tourist_Attractions",
               "Accessibility_Score", "Tourist_Capacity_Limit" >>

\* The keys of the dict `defaults` of predict(), in its order.
optional == << "Country", "Flood_Risk_Index", "Drought_Risk_Index", "Temperature_C",
               "Annual_Rainfall_mm", "Soil_Erosion_Risk", "Current_Tourist_Count",
               "Human_Activity_Index", "Conservation_Investment_USD",
               "Climate_Risk_Score" >>

RequiredSet == SeqToSet(required)
OptionalSet == SeqToSet(optional)

EmptyRecord == [f \in {} |-> Num(0)]

\* Values a caller may send; the two fields the defaults are derived from
\* vary, Tourist_Capacity_Limit also over a non-numeric value.
Temperatures == {Num(15000), Num(25000)}
Limits == {Num(500000), Str("many")}

CallerValue(f) ==
    IF f \in {"Vegetation_Type", "Soil_Type"} THEN Str("Forest")
    ELSE IF f = "Country" THEN Str("India")
    ELSE IF f \in OptionalSet THEN Num(777)
    ELSE Num(1000)

RecordOf(D, at, tl) ==
    [f \in D |-> IF f = "Average_Temperature_C" THEN at
                 ELSE IF f = "Tourist_Capacity_Limit" THEN tl
                 ELSE CallerValue(f)]

\* Complete records vary in the optional fields they supply and in the two
\* source values; incomplete ones lack up to MaxMissing required fields and
\* carry none or all of the optional fields.
CompleteRecords ==
    {RecordOf(RequiredSet \cup sup, at, tl) :
        sup \in SubsetsUpTo(OptionalSet, MaxSupplied),
        at \in Temperatures, tl \in Limits}

IncompleteRecords ==
    {RecordOf((RequiredSet \ miss) \cup sup, Num(15000), Num(500000)) :
        miss \in SubsetsUpTo(RequiredSet, MaxMissing) \ {{}},
        sup \in {{}, OptionalSet}}

\* request.json: a JSON object, or None when the body is absent.
Requests ==
    {[has_body |-> TRUE, json |-> r] :
        r \in CompleteRecords \cup IncompleteRecords \cup {EmptyRecord}}
    \cup {[has_body |-> FALSE, json |-> EmptyRecord]}

NoRequest == [has_body |-> FALSE, json |-> EmptyRecord]

\* input_data = request.json or {}
JsonOrEmpty(req) ==
    IF req.has_body /\ DOMAIN req.json # {} THEN req.json ELSE EmptyRecord

(***************************** predict: validation and defaults ************)
\* A validation that skips the first entry of `required`.
MissingFieldsSkipsFirst(d) ==
    SelectSeq(Tail(required), LAMBDA f : f \notin DOMAIN d)

\* missing = [f for f in required if f not in input_data]
MissingFields(d) ==
    SelectSeq(required, LAMBDA f : f \notin DOMAIN d)

\* Tourist_Capacity_Limit*0.6 raises TypeError unless the value is a number.
DefaultsRaise(d) == d["Tourist_Capacity_Limit"].tag # "num"

TimesSixTenths(n) == (n * 6) \div 10

\* The dict `defaults`, built from input_data before any default is applied.
Defaults(d) ==
    [k \in OptionalSet |->
        CASE k = "Country" -> Str("USA")
          [] k = "Flood_Risk_Index" -> Num(300)
          [] k = "Drought_Risk_Index" -> Num(300)
          [] k = "Temperature_C" ->
                IF "Average_Temperature_C" \in DOMAIN d
                THEN d["Average_Temperature_C"] ELSE Num(20000)
          [] k = "Annual_Rainfall_mm" -> Num(1000000)
          [] k = "Soil_Erosion_Risk" -> Num(200)
          [] k = "Current_Tourist_Count" ->
                Num(TimesSixTenths(d["Tourist_Capacity_Limit"].num))
          [] k = "Human_Activity_Index" -> Num(400)
          [] k = "Conservation_Investment_USD" -> Num(100000000)
          [] k = "Climate_Risk_Score" -> Num(400)]

\* A loop that assigns input_data[k] = v instead of setdefault.
InjectDefaultsOverwrite(d) ==
    [f \in DOMAIN d \cup OptionalSet |->
        IF f \in OptionalSet THEN Defaults(d)[f] ELSE d[f]]

\* for k, v in defaults.items(): input_data.setdefault(k, v)
InjectDefaults(d) ==
    [f \in DOMAIN d \cup OptionalSet |->
        IF f \in DOMAIN d THEN d[f] ELSE Defaults(d)[f]]

(***************************** preprocess_input_data ***********************)
Tasks == << "regression", "classification" >>

FeatureKey(task_type) == task_type \o "_features"

PreprocessPrefix == "Error preprocessing data: "

Ok == [raised |-> FALSE, msg |-> << >>]
Raise(m) == [raised |-> TRUE, msg |-> m]

\* A preprocessor that validates the regression artifacts whatever the task
\* and treats an absent feature list as empty.
PreprocessIgnoresTask(c, data, task_type, xform) ==
    IF ~Truthy(c.models)
    THEN Raise(<< PreprocessPrefix, "Models not loaded" >>)
    ELSE IF \/ ~Has(c.encoders, "regression")
            \/ ~Has(c.scalers, "regression")
            \/ ~Has(c.feature_names, FeatureKey("regression"))
    THEN Raise(<< PreprocessPrefix, "Missing encoders/scalers/features for task",
                  task_type >>)
    ELSE IF xform = "raise"
    THEN Raise(<< PreprocessPrefix, "transform failed" >>)
    ELSE Ok

\* preprocess_input_data(data, task_type): the guards, the column check and
\* the library transforms (encoding, astype, scaling), whose failure is the
\* input xform.  Every failure is re-raised with the prefix.
Preprocess(c, data, task_type, xform) ==
    IF ~Truthy(c.models)
    THEN Raise(<< PreprocessPrefix, "Models not loaded" >>)
    ELSE IF \/ ~Has(c.encoders, task_type)
            \/ ~Has(c.scalers, task_type)
            \/ ~Has(c.feature_names, FeatureKey(task_type))
    THEN Raise(<< PreprocessPrefix, "Missing encoders/scalers/features for task",
                  task_type >>)
    ELSE LET cols == Get(c.feature_names, FeatureKey(task_type))
             missing == SelectSeq(cols, LAMBDA col : col \notin DOMAIN data)
         IN  IF missing # << >>
             THEN Raise(<< PreprocessPrefix, "Missing input features: " >> \o missing)
             ELSE IF xform = "raise"
             THEN Raise(<< PreprocessPrefix, "transform failed" >>)
             ELSE Ok

(***************************** predict: inference and response *************)
cats == << "Low", "Medium", "High" >>

\* Thresholds of risk_level, in thousandths.
LowBelow == 330
HighFrom == 670

\* Outputs of the loaded models (external inputs).
Scores == {-500, 100, 329, 330, 669, 670, 990, 1500}
ClassIndices == {-4, -1, 0, 1, 2, 3}
ProbaLens == {2, 3}

DefaultModelEnv == [xr |-> "ok", xc |-> "ok", inv |-> "ok",
                    score |-> 100, cls |-> 0, plen |-> 3]

\* What the library calls of one prediction do: the two transforms, the
\* model invocations, and the values the models return.  Inputs behind a
\* failing call are fixed.
ModelEnvs ==
    {[DefaultModelEnv EXCEPT !.xr = "raise"],
     [DefaultModelEnv EXCEPT !.xc = "raise"],
     [DefaultModelEnv EXCEPT !.inv = "raise"]}
    \cup
    {[DefaultModelEnv EXCEPT !.score = s, !.cls = c, !.plen = n] :
        s \in Scores, c \in ClassIndices, n \in ProbaLens}

\* Python list indexing: negative indices count from the end; IndexError
\* outside -len..len-1.
PyIndexOk(s, i) == i < Len(s) /\ i >= -Len(s)
PyIndex(s, i) == IF i >= 0 THEN s[i + 1] ELSE s[Len(s) + i + 1]

\* cats[cls] if cls < len(cats) else 'Unknown'
FloodCatRaises(cls) == cls < Len(cats) /\ ~PyIndexOk(cats, cls)
FloodCat(cls) == IF cls < Len(cats) THEN PyIndex(cats, cls) ELSE "Unknown"

RiskLevelInclusive(score) ==
    IF score <= LowBelow THEN "Low" ELSE IF score <= HighFrom THEN "Medium" ELSE "High"

\* 'Low' if score<0.33 else 'Medium' if score<0.67 else 'High'
RiskLevel(score) ==
    IF score < LowBelow THEN "Low" ELSE IF score < HighFrom THEN "Medium" ELSE "High"

BlankResp ==
    [kind |-> "none", http |-> 0, propagated |-> FALSE, success |-> FALSE,
     error |-> << >>, missing |-> << >>, failure |-> "none", injected |-> FALSE,
     climate_risk_score |-> 0, cls |-> 0, flood_risk_category |-> "",
     risk_probabilities |-> << >>, risk_level |-> "",
     status |-> "", available_models |-> << >>, available_encoders |-> << >>,
     available_scalers |-> << >>, available_feature_sets |-> << >>]

Return(r, d) == [raised |-> FALSE, resp |-> r, input_data |-> d]

Raised(step, m, d, inj) ==
    [raised |-> TRUE,
     resp |-> [BlankResp EXCEPT !.kind = "predict", !.failure = step,
                                !.error = m, !.injected = inj],
     input_data |-> d]

\* The try block of predict() after the lazy load; c is the cache it sees.
PredictBody(c, req, e) ==
    IF ~Truthy(c.models)
    THEN Return([BlankResp EXCEPT !.kind = "predict", !.http = 500,
                                  !.error = << "Models not loaded" >>],
                EmptyRecord)
    ELSE
    LET d0 == JsonOrEmpty(req)
        missing == MissingFields(d0)
    IN  IF missing # << >>
        THEN Return([BlankResp EXCEPT !.kind = "predict", !.http = 400,
                                      !.error = << "Missing fields: " >>,
                                      !.missing = missing], d0)
        ELSE IF DefaultsRaise(d0)
        THEN Raised("defaults", << "TypeError" >>, d0, FALSE)
        ELSE
        LET d1 == InjectDefaults(d0)
            reg == Preprocess(c, d1, Tasks[1], e.xr)
            cl  == Preprocess(c, d1, Tasks[2], e.xc)
        IN  IF reg.raised THEN Raised("preprocess_regression", reg.msg, d1, TRUE)
            ELSE IF cl.raised
            THEN Raised("preprocess_classification", cl.msg, d1, TRUE)
            ELSE IF ~Has(c.models, "regression") \/ ~Has(c.models, "classification")
            THEN Raised("model", << "KeyError" >>, d1, TRUE)
            ELSE IF e.inv = "raise"
            THEN Raised("model", << "predict failed" >>, d1, TRUE)
            ELSE IF FloodCatRaises(e.cls) \/ e.plen < Len(cats)
            THEN Raised("assemble", << "IndexError" >>, d1, TRUE)
            ELSE Return([BlankResp EXCEPT
                            !.kind = "predict", !.http = 200, !.success = TRUE,
                            !.injected = TRUE,
                            !.climate_risk_score = e.score, !.cls = e.cls,
                            !.flood_risk_category = FloodCat(e.cls),
                            !.risk_probabilities = cats,
                            !.risk_level = RiskLevel(e.score)], d1)

\* A handler whose except clause misses the preprocessing failures.
CatchSome(out) ==
    IF out.raised
    THEN IF out.resp.failure \in {"preprocess_regression", "preprocess_classification"}
         THEN [out.resp EXCEPT !.propagated = TRUE]
         ELSE [out.resp EXCEPT !.http = 500, !.success = FALSE]
    ELSE out.resp

\* except Exception as e: return jsonify({'error': str(e), 'success': False}), 500
CatchAll(out) ==
    IF out.raised
    THEN [out.resp EXCEPT !.http = 500, !.success = FALSE]
    ELSE out.resp

\* Whether the handler, seeing cache c, reads the request body and then the
\* library inputs.
ReadsRequest(c) == Truthy(c.models)

ReadsModels(c, req) ==
    /\ Truthy(c.models)
    /\ MissingFields(JsonOrEmpty(req)) = << >>
    /\ ~DefaultsRaise(JsonOrEmpty(req))

(***************************** health_check ********************************)
HealthStatusAny(c) ==
    IF Truthy(c.models) \/ Truthy(c.encoders) \/ Truthy(c.scalers)
       \/ Truthy(c.feature_names)
    THEN "healthy" ELSE "unhealthy"

\* 'healthy' if models and encoders and scalers and feature_names
HealthStatus(c) ==
    IF Truthy(c.models) /\ Truthy(c.encoders) /\ Truthy(c.scalers)
       /\ Truthy(c.feature_names)
    THEN "healthy" ELSE "unhealthy"

HealthBody(c) ==
    [BlankResp EXCEPT !.kind = "health", !.http = 200,
                      !.status = HealthStatus(c),
                      !.available_models = Keys(c.models),
                      !.available_encoders = Keys(c.encoders),
                      !.available_scalers = Keys(c.scalers),
                      !.available_feature_sets = Keys(c.feature_names)]

(***************************** the worker **********************************)
SetCache(c) ==
    /\ models' = c.models
    /\ scalers' = c.scalers
    /\ encoders' = c.encoders
    /\ feature_names' = c.feature_names

\* if not models: load_models_and_processors()
LazyLoad(c, env) == IF ~Truthy(c.models) THEN LoadResult(c, env) ELSE NoLoad

LoadOutcome(l, prev) ==
    IF l.called THEN (IF l.ok THEN "ok" ELSE "failed") ELSE prev

Init ==
    /\ models = EmptyDict
    /\ scalers = EmptyDict
    /\ encoders = EmptyDict
    /\ feature_names = EmptyDict
    /\ pc = "import"
    /\ load = NoLoad
    /\ lastLoad = "none"
    /\ everLoaded = FALSE
    /\ request = NoRequest
    /\ input_data = EmptyRecord
    /\ resp = BlankResp

\* Module import: the initial load.
Startup ==
    /\ pc = "import"
    /\ \E env \in LoadEnvs :
          LET l == LazyLoad(Cache, env)
          IN  /\ load' = l
              /\ SetCache(IF l.called THEN l.cache ELSE Cache)
              /\ lastLoad' = LoadOutcome(l, lastLoad)
              /\ everLoaded' = (everLoaded \/ (l.called /\ l.ok))
    /\ pc' = "imported"
    /\ UNCHANGED <<request, input_data, resp>>

\* POST /api/predict, the whole handler.  The loader's environment is an
\* input only when the loader runs, the request body only when it is read,
\* the library behaviour only when the libraries are called.
Predict ==
    /\ pc = "idle"
    /\ \E env \in (IF ~Truthy(models) THEN LoadEnvs
                   ELSE {[absent |-> {}, failAt |-> 0, doc |-> DocGood]}) :
          LET l == LazyLoad(Cache, env)
              c == IF l.called THEN l.cache ELSE Cache
          IN  \E req \in (IF ReadsRequest(c) THEN Requests
                          ELSE {NoRequest,
                                [has_body |-> TRUE,
                                 json |-> RecordOf(RequiredSet \ {"Soil_Type"},
                                                   Num(15000), Num(500000))]}) :
              \E e \in (IF ReadsModels(c, req) THEN ModelEnvs
                        ELSE {DefaultModelEnv}) :
                 LET out == PredictBody(c, req, e)
                 IN  /\ load' = l
                     /\ SetCache(c)
                     /\ lastLoad' = LoadOutcome(l, lastLoad)
                     /\ everLoaded' = (everLoaded \/ (l.called /\ l.ok))
                     /\ request' = req
                     /\ input_data' = out.input_data
                     /\ resp' = CatchAll(out)
    /\ pc' = "returned"

\* GET /api/health
Health ==
    /\ pc = "idle"
    /\ resp' = HealthBody(Cache)
    /\ load' = NoLoad
    /\ request' = NoRequest
    /\ input_data' = EmptyRecord
    /\ pc' = "returned"
    /\ UNCHANGED <<models, scalers, encoders, feature_names, lastLoad, everLoaded>>

\* The response has been sent (or the import has finished): the worker waits
\* for the next request; only the globals survive.
NextRequest ==
    /\ pc \in {"imported", "returned"}
    /\ pc' = "idle"
    /\ load' = NoLoad
    /\ request' = NoRequest
    /\ input_data' = EmptyRecord
    /\ resp' = BlankResp
    /\ UNCHANGED <<models, scalers, encoders, feature_names, lastLoad, everLoaded>>

Next == Startup \/ Predict \/ Health \/ NextRequest

Spec == Init /\ [][Next]_vars

(***************************** properties **********************************)
\* The required fields the submitted record lacks.
AbsentRequired == {f \in RequiredSet : f \notin DOMAIN JsonOrEmpty(request)}

ListsExactly(seq, S) == SeqToSet(seq) = S /\ Len(seq) = Cardinality(S)

Rejected400 ==
    /\ resp.http = 400
    /\ ~resp.success
    /\ resp.error = << "Missing fields: " >>
    /\ ListsExactly(resp.missing, AbsentRequired)

\* C1 as stated: every predict request whose record lacks a required field
\* is answered 400, success=false, with exactly the absent required fields
\* listed.
C1_AsStated ==
    (resp.kind = "predict" /\ AbsentRequired # {}) => Rejected400

\* C1 amended: the same, provided the models map is non-empty once the
\* handler's lazy load step is over.
C1_MissingFields400 ==
    (resp.kind = "predict" /\ AbsentRequired # {} /\ Truthy(models)) => Rejected400

C1_Witness ==
    /\ resp.kind = "predict"
    /\ AbsentRequired = {"Biodiversity_Index", "Soil_Type"}
    /\ OptionalSet \subseteq DOMAIN request.json
    /\ resp.http = 400
    /\ resp.missing = << "Biodiversity_Index", "Soil_Type" >>

\* C2: a loader call made while an expected file is absent returns False,
\* does not raise, and leaves the four maps as they were before the call.
C2_AbsentFileNoChange ==
    (load.called /\ load.absent # {}) =>
        /\ ~load.ok
        /\ ~load.raised
        /\ Cache = load.pre

C2_Witness ==
    /\ load.called
    /\ load.absent = {"regression_scaler.pkl"}
    /\ ~load.ok
    /\ Cache = EmptyCache

\* C3 as stated: with all six files present, a loader call in which a read
\* fails returns False and leaves the four maps as they were before the call.
C3_AsStated ==
    (load.called /\ load.absent = {} /\ load.failed_read) =>
        /\ ~load.ok
        /\ ~load.raised
        /\ Cache = load.pre

\* C4 as stated: a predict request that follows a failed load invokes the
\* loader again.
C4_AsStated ==
    [][(lastLoad = "failed" /\ pc = "idle" /\ resp'.kind = "predict")
          => load'.called]_vars

BothTasks == << "regression", "classification" >>

\* C5 as stated: health before any successful load is unhealthy with four
\* empty lists; after one it is healthy and each list is exactly
\* regression, classification.
C5_AsStated ==
    resp.kind = "health" =>
        /\ ~everLoaded =>
              /\ resp.status = "unhealthy"
              /\ resp.available_models = << >>
              /\ resp.available_encoders = << >>
              /\ resp.available_scalers = << >>
              /\ resp.available_feature_sets = << >>
        /\ everLoaded =>
              /\ resp.status = "healthy"
              /\ ListsExactly(resp.available_models, SeqToSet(BothTasks))
              /\ ListsExactly(resp.available_encoders, SeqToSet(BothTasks))
              /\ ListsExactly(resp.available_scalers, SeqToSet(BothTasks))
              /\ ListsExactly(resp.available_feature_sets, SeqToSet(BothTasks))

\* C5 amended: health is healthy exactly when the four maps are non-empty
\* and each list is the key list of its map.  Before any successful load it
\* is unhealthy with no feature sets (the other lists may hold keys a failed
\* load stored).  After a successful load the model, encoder and scaler lists
\* are exactly regression, classification, the feature-set list is the key
\* list of the feature-name document (never the task names), and the status
\* is healthy unless that document is empty.
C5_HealthReflectsCache ==
    resp.kind = "health" =>
        /\ resp.status \in {"healthy", "unhealthy"}
        /\ resp.status = "healthy" <=>
              (models # << >> /\ encoders # << >> /\ scalers # << >>
               /\ feature_names # << >>)
        /\ resp.available_models = Keys(models)
        /\ resp.available_encoders = Keys(encoders)
        /\ resp.available_scalers = Keys(scalers)
        /\ resp.available_feature_sets = Keys(feature_names)
        /\ SeqToSet(resp.available_feature_sets) \cap SeqToSet(BothTasks) = {}
        /\ ~everLoaded =>
              /\ resp.status = "unhealthy"
              /\ resp.available_feature_sets = << >>
        /\ everLoaded =>
              /\ resp.available_models = BothTasks
              /\ resp.available_encoders = BothTasks
              /\ resp.available_scalers = BothTasks
              /\ resp.status = "healthy" <=> resp.available_feature_sets # << >>

C5_Witness ==
    /\ resp.kind = "health"
    /\ everLoaded
    /\ resp.status = "healthy"
    /\ resp.available_feature_sets =
          << "regression_features", "classification_features" >>

\* C6: every predict request ends in one structured outcome, 200 with
\* success=true, 400 with success=false or 500 with success=false and an
\* error; a failure raised in any step gives the 500 outcome and none
\* propagates past the handler.
C6_StructuredOutcome ==
    resp.kind = "predict" =>
        /\ ~resp.propagated
        /\ resp.http \in {200, 400, 500}
        /\ resp.http = 200 => resp.success
        /\ resp.http \in {400, 500} => (~resp.success /\ resp.error # << >>)
        /\ resp.failure # "none" => resp.http = 500
        /\ ~Truthy(models) => resp.http = 500

C6_Witness ==
    /\ resp.kind = "predict"
    /\ resp.failure = "preprocess_classification"
    /\ resp.http = 500
    /\ ~resp.success

\* C7 as stated: a successful response maps class index 0, 1, 2 to Low,
\* Medium, High and every other index, negative ones included, to Unknown.
C7_AsStated ==
    (resp.kind = "predict" /\ resp.http = 200) =>
        resp.flood_risk_category =
            (CASE resp.cls = 0 -> "Low"
               [] resp.cls = 1 -> "Medium"
               [] resp.cls = 2 -> "High"
               [] OTHER -> "Unknown")

\* C8: once defaults have been applied, every optional field the caller did
\* not send holds its specified default, every field the caller sent keeps
\* the caller's value, and applying the defaults again changes nothing.
C8_DefaultInjection ==
    (resp.kind = "predict" /\ resp.injected) =>
        LET sent == request.json
            absent(f) == f \notin DOMAIN sent
        IN  /\ DOMAIN input_data = DOMAIN sent \cup OptionalSet
            /\ \A f \in DOMAIN sent : input_data[f] = sent[f]
            /\ absent("Country") => input_data["Country"] = Str("USA")
            /\ absent("Flood_Risk_Index") => input_data["Flood_Risk_Index"] = Num(300)
            /\ absent("Drought_Risk_Index") => input_data["Drought_Risk_Index"] = Num(300)
            /\ absent("Temperature_C") =>
                  input_data["Temperature_C"] = sent["Average_Temperature_C"]
            /\ absent("Annual_Rainfall_mm") =>
                  input_data["Annual_Rainfall_mm"] = Num(1000000)
            /\ absent("Soil_Erosion_Risk") => input_data["Soil_Erosion_Risk"] = Num(200)
            /\ absent("Current_Tourist_Count") =>
                  10 * input_data["Current_Tourist_Count"].num
                      = 6 * sent["Tourist_Capacity_Limit"].num
            /\ absent("Human_Activity_Index") =>
                  input_data["Human_Activity_Index"] = Num(400)
            /\ absent("Conservation_Investment_USD") =>
                  input_data["Conservation_Investment_USD"] = Num(100000000)
            /\ absent("Climate_Risk_Score") => input_data["Climate_Risk_Score"] = Num(400)
            /\ InjectDefaults(input_data) = input_data

C8_Witness ==
    /\ resp.kind = "predict"
    /\ resp.injected
    /\ DOMAIN request.json = RequiredSet
    /\ request.json["Tourist_Capacity_Limit"] = Num(500000)
    /\ input_data["Current_Tourist_Count"] = Num(300000)
    /\ input_data["Temperature_C"] = request.json["Average_Temperature_C"]

\* C9: the risk_level of a successful response is Low below 0.33, Medium
\* from 0.33 up to but not including 0.67, and High from 0.67 on.
C9_RiskLevelThresholds ==
    (resp.kind = "predict" /\ resp.http = 200) =>
        /\ resp.climate_risk_score < 330 => resp.risk_level = "Low"
        /\ (330 <= resp.climate_risk_score /\ resp.climate_risk_score < 670)
              => resp.risk_level = "Medium"
        /\ resp.climate_risk_score >= 670 => resp.risk_level = "High"

C9_Witness ==
    /\ resp.kind = "predict"
    /\ resp.http = 200
    /\ resp.climate_risk_score = 330
    /\ resp.risk_level = "Medium"
    /\ resp.flood_risk_category = "High"

\* C10: a 200 prediction response comes only from a cache complete for both
\* tasks, in which health would report healthy.
C10_SuccessNeedsCompleteCache ==
    (resp.kind = "predict" /\ resp.http = 200) =>
        /\ \A t \in SeqToSet(BothTasks) :
              /\ t \in SeqToSet(Keys(models))
              /\ t \in SeqToSet(Keys(scalers))
              /\ t \in SeqToSet(Keys(encoders))
        /\ "regression_features" \in SeqToSet(Keys(feature_names))
        /\ "classification_features" \in SeqToSet(Keys(feature_names))
        /\ HealthBody(Cache).status = "healthy"

C10_Witness ==
    /\ resp.kind = "predict"
    /\ resp.http = 200
    /\ resp.success
    /\ load.called
    /\ load.ok

====
